---- MODULE Spec2Model ----
(***************************************************************************)
(* NmapRunner (src/utils/nmap_runner.py): a controller that runs nmap as a *)
(* subprocess on a background thread, streams its stdout line by line to a *)
(* result callback and lets the caller stop the scan.                       *)
(*                                                                          *)
(* A Python str is modelled as a sequence of chunks (each chunk a TLA+      *)
(* string standing for one or more characters); the empty str is << >>.     *)
(* Execution contexts: 0 is the foreground caller of start_scan/stop_scan,  *)
(* 1..MaxSessions are the background threads start_scan creates, in order.  *)
(* The subprocess spawned by thread i has id i.                             *)
(***************************************************************************)
EXTENDS Integers, Sequences, FiniteSets, TLC

\* ------------------------------------------------------------------ bounds
MaxSessions == 2    \* background threads start_scan may create
MaxLines == 2       \* stdout lines a subprocess may write
PipeCap == 1        \* chunks the stderr pipe holds

\* ----------------------------------------------------------------- strings
WS == {" ", "\n", "\t"}

RECURSIVE LStrip(_)
LStrip(s) == IF s # << >> /\ Head(s) \in WS THEN LStrip(Tail(s)) ELSE s

RECURSIVE RStrip(_)
RStrip(s) ==
  IF s # << >> /\ s[Len(s)] \in WS THEN RStrip(SubSeq(s, 1, Len(s) - 1)) ELSE s

\* str.strip(): leading and trailing whitespace removed
Strip(s) == RStrip(LStrip(s))

\* whether sep occurs in s at position i
MatchAt(s, sep, i) ==
  /\ i + Len(sep) - 1 <= Len(s)
  /\ \A k \in 1..Len(sep) : s[i + k - 1] = sep[k]

\* str.split(sep): the parts of s between the occurrences of sep, left to right
RECURSIVE SplitFrom(_, _, _, _)
SplitFrom(s, sep, i, cur) ==
  IF i > Len(s) THEN << cur >>
  ELSE IF MatchAt(s, sep, i)
       THEN << cur >> \o SplitFrom(s, sep, i + Len(sep), << >>)
       ELSE SplitFrom(s, sep, i + 1, Append(cur, s[i]))

Split(s, sep) == SplitFrom(s, sep, 1, << >>)

\* ' '.join(command)
RECURSIVE Join(_)
Join(command) ==
  IF command = << >> THEN << >>
  ELSE IF Len(command) = 1 THEN command[1]
  ELSE command[1] \o << " " >> \o Join(Tail(command))

\* ------------------------------------------------------- build_nmap_command
\* options.get(key) used as a condition: a missing key, False and '' are falsy
\* (scan_type holds a str, every other key a bool)
Truthy(options, key) ==
  /\ key \in DOMAIN options
  /\ IF key = "scan_type" THEN options[key] # << >> ELSE options[key]

Flag(options, key, flag) == IF Truthy(options, key) THEN << flag >> ELSE << >>

ScanTypeParts(options) == Split(options["scan_type"], << ":", " " >>)

\* the exception build_nmap_command raises, "none" when it returns
BuildError(target, port_range, options) ==
  IF Truthy(options, "scan_type") /\ Len(ScanTypeParts(options)) < 2
  THEN "IndexError"
  ELSE IF target = << >> THEN "ValueError" ELSE "none"

\* a builder that appends -O before -sV
build_nmap_command_os_first(target, port_range, options) ==
  << << "nmap" >> >>
  \o (IF Truthy(options, "scan_type") THEN << ScanTypeParts(options)[2] >> ELSE << >>)
  \o (IF port_range # << >> THEN << << "-p" >> \o port_range >> ELSE << >>)
  \o Flag(options, "os_detection", << "-O" >>)
  \o Flag(options, "service_scan", << "-sV" >>)
  \o Flag(options, "aggressive_scan", << "-A" >>)
  \o Flag(options, "verbose", << "-v" >>)
  \o Flag(options, "no_ping", << "-Pn" >>)
  \o << target >>

\* the list build_nmap_command returns when it raises nothing
build_nmap_command(target, port_range, options) ==
  << << "nmap" >> >>
  \o (IF Truthy(options, "scan_type") THEN << ScanTypeParts(options)[2] >> ELSE << >>)
  \o (IF port_range # << >> THEN << << "-p" >> \o port_range >> ELSE << >>)
  \o Flag(options, "service_scan", << "-sV" >>)
  \o Flag(options, "os_detection", << "-O" >>)
  \o Flag(options, "aggressive_scan", << "-A" >>)
  \o Flag(options, "verbose", << "-v" >>)
  \o Flag(options, "no_ping", << "-Pn" >>)
  \o << target >>

\* the messages of the exceptions, str(e)
Message(e) ==
  CASE e = "ValueError" -> << "Target cannot be empty." >>
    [] e = "IndexError" -> << "list index out of range" >>
    [] e = "AttributeError" -> << "'NoneType' object has no attribute" >>
    [] e = "SpawnError" -> << "No such file or directory: 'nmap'" >>
    [] e = "ReadError" -> << "stream read failed" >>
    [] OTHER -> << >>

\* ------------------------------------------------------------------- state
Threads == 1..MaxSessions
Contexts == {0} \cup Threads

VARIABLES
  scan_thread,    \* self.scan_thread: 0 for None, else the thread's id
  scan_process,   \* self.scan_process: 0 for None, else the subprocess's id
  stop_event,     \* self.stop_event: whether the Event is set
  pc,             \* where each context is in the code ("idle", "done", or a line)
  exc,            \* the exception each context is raising, "none" when none
  h,              \* the Popen object a context's wait() call is blocked on
  cmd,            \* run_scan's argument, per thread
  it,             \* the subprocess whose stdout a thread's for loop iterates
  line,           \* the line the for loop holds, per thread
  proc,           \* the subprocesses: state, script, pipe contents
  log,            \* the lines the background threads handed to update_result_callback
                  \* since the latest accepted start_scan, in order
  res,            \* how the foreground's latest call ended ("pending" while it runs)
  said,           \* the lines that call handed to update_result_callback itself
  stopped,        \* per session, the phases in which stop_scan was invoked
  failed,         \* per session, whether a spawn or read failure occurred
  observed,       \* per session, the lines of run_scan that found the event set
  leaked,         \* whether the event was set when the latest accepted start_scan began
  build           \* a call of build_nmap_command on its own: arguments and outcome

vars ==
  << scan_thread, scan_process, stop_event, pc, exc, h, cmd, it, line, proc, log,
     res, said, stopped, failed, observed, leaked, build >>

\* the lines subprocess output is made of: line k of a script is its visible
\* text, indented or not, and the newline
LineText(k) == << "line", ToString(k) >>

Line(k) ==
  IF k % 2 = 1 THEN LineText(k) \o << "\n" >>
  ELSE << " " >> \o LineText(k) \o << " ", "\n" >>

\* no subprocess; err counts the chunks a subprocess has written to its stderr
\* pipe, the one it is blocked in included
NoProc ==
  [st |-> "none", n |-> 0, w |-> 0, pipe |-> << >>, term |-> FALSE, ign |-> FALSE,
   err |-> 0]

\* the arguments the foreground passes to start_scan
StartArgs ==
  { [target |-> << "10.0.0.5" >>, port_range |-> << "20-80" >>,
     options |-> [scan_type |-> << "TCP SYN", ":", " ", "-sS" >>, service_scan |-> TRUE]],
    [target |-> << >>, port_range |-> << "20-80" >>,
     options |-> [service_scan |-> FALSE, no_ping |-> TRUE]],
    [target |-> << "10.0.0.5" >>, port_range |-> << >>,
     options |-> [scan_type |-> << "TCP SYN" >>, verbose |-> TRUE]] }

\* no call of build_nmap_command on its own
NoBuild == [stage |-> "none"]

\* __init__
Init ==
  /\ scan_thread = 0
  /\ scan_process = 0
  /\ stop_event = FALSE
  /\ pc = [c \in Contexts |-> IF c = 0 THEN "idle" ELSE "unborn"]
  /\ exc = [c \in Contexts |-> "none"]
  /\ h = [c \in Contexts |-> 0]
  /\ cmd = [i \in Threads |-> << >>]
  /\ it = [i \in Threads |-> 0]
  /\ line = [i \in Threads |-> << >>]
  /\ proc = [i \in Threads |-> NoProc]
  /\ log = << >>
  /\ res = "ok"
  /\ said = << >>
  /\ stopped = [i \in Threads |-> {}]
  /\ failed = [i \in Threads |-> FALSE]
  /\ observed = [i \in Threads |-> {}]
  /\ leaked = FALSE
  /\ build = NoBuild

\* one invocation of update_result_callback by context c
Entry(c, kind, text) == [s |-> c, kind |-> kind, text |-> text]

Emit(c, kind, text) == log' = Append(log, Entry(c, kind, text))

\* threading.Thread.is_alive()
is_alive(i) == pc[i] \notin {"unborn", "done"}

\* Popen.poll() is None
Running(p) == proc[p].st = "run"

\* ---------------------------------------------------------------- start_scan
\* a start_scan that takes any earlier thread for a running one
AlreadyRunningStale == scan_thread # 0

\* a start_scan that looks at the handle instead of the thread
AlreadyRunningByHandle == scan_process # 0

\* line 101: if self.scan_thread and self.scan_thread.is_alive()
AlreadyRunning == scan_thread # 0 /\ is_alive(scan_thread)

\* a subprocess nothing refers to any more: not the handle, not a live thread
Forgotten(p) ==
  /\ ~is_alive(p)
  /\ scan_process # p
  /\ \A c \in Contexts : h[c] # p
  /\ \A i \in Threads : it[i] # p

\* what is kept of subprocess p when a new window opens: of a forgotten one,
\* only whether it still runs (nothing can read its pipe or signal it)
Kept(p) ==
  IF ~Forgotten(p) THEN proc[p]
  ELSE IF Running(p) THEN [NoProc EXCEPT !.st = "run"]
  ELSE NoProc

\* a start_scan that leaves the stop event as it finds it
NotCleared == stop_event

\* line 105: the stop event after self.stop_event.clear()
Cleared == FALSE

\* lines 101-107. No background thread runs on the accepting path, so the call
\* is one step. An accepted call opens a new observation window: the log and
\* the records of the sessions that are over start anew.
start_scan(args) ==
  /\ pc[0] = "idle"
  /\ IF AlreadyRunning
     THEN /\ said' = << << "A scan is already in progress. Please wait." >> >>
          /\ res' = "busy"
          /\ UNCHANGED << scan_thread, stop_event, pc, cmd, log, proc, stopped, failed,
                          observed, leaked >>
     ELSE LET e == BuildError(args.target, args.port_range, args.options)
              new == scan_thread + 1
          IN
          IF e # "none"
          THEN /\ res' = e
               /\ said' = << >>
               /\ UNCHANGED << scan_thread, stop_event, pc, cmd, log, proc, stopped,
                               failed, observed, leaked >>
          ELSE /\ scan_thread < MaxSessions
               /\ stop_event' = Cleared
               /\ scan_thread' = new
               /\ pc' = [pc EXCEPT ![new] = "r58"]
               /\ cmd' = [i \in Threads |->
                            IF i = new
                            THEN build_nmap_command(args.target, args.port_range,
                                                    args.options)
                            ELSE IF is_alive(i) THEN cmd[i] ELSE << >>]
               /\ res' = "ok"
               /\ said' = << >>
               /\ log' = << >>
               /\ proc' = [p \in Threads |-> Kept(p)]
               /\ stopped' = [i \in Threads |-> IF is_alive(i) THEN stopped[i] ELSE {}]
               /\ failed' = [i \in Threads |-> is_alive(i) /\ failed[i]]
               /\ observed' = [i \in Threads |-> IF is_alive(i) THEN observed[i] ELSE {}]
               /\ leaked' = stop_event
  /\ UNCHANGED << scan_process, exc, h, it, line >>
  /\ UNCHANGED build

StartScan == \E args \in StartArgs : start_scan(args)

\* ------------------------------------------------------------ the subprocess
\* the subprocess is inside a write to its stderr pipe, which is full: nothing
\* reads the pipe that line 60 opens
Blocked(p) == proc[p].err > PipeCap

\* the subprocess writes a chunk to stderr; the write that finds the pipe full
\* does not return
ProcWriteErr(p) ==
  /\ Running(p)
  /\ ~Blocked(p)
  /\ proc' = [proc EXCEPT ![p].err = @ + 1]
  /\ UNCHANGED << scan_thread, scan_process, stop_event, pc, exc, h, cmd, it, line,
                  log, res, said, stopped, failed >>
  /\ UNCHANGED << build, observed, leaked >>

\* the subprocess writes its next line to stdout
ProcWrite(p) ==
  /\ Running(p)
  /\ ~Blocked(p)
  /\ proc[p].w < proc[p].n
  /\ proc' = [proc EXCEPT ![p].w = @ + 1, ![p].pipe = Append(@, Line(proc[p].w + 1))]
  /\ UNCHANGED << scan_thread, scan_process, stop_event, pc, exc, h, cmd, it, line,
                  log, res, said, stopped, failed >>
  /\ UNCHANGED << build, observed, leaked >>

\* the subprocess exits: its output is complete, or it honours SIGTERM
ProcExit(p) ==
  /\ Running(p)
  /\ (proc[p].w = proc[p].n /\ ~Blocked(p)) \/ (proc[p].term /\ ~proc[p].ign)
  /\ proc' = [proc EXCEPT ![p].st = "exited"]
  /\ UNCHANGED << scan_thread, scan_process, stop_event, pc, exc, h, cmd, it, line,
                  log, res, said, stopped, failed >>
  /\ UNCHANGED << build, observed, leaked >>

Subprocess == \E p \in Threads : ProcWrite(p) \/ ProcExit(p)

\* ------------------------------------------------------------------ run_scan
\* line 58
Run58(i) ==
  /\ pc[i] = "r58"
  /\ Emit(i, "starting", << "Starting scan: " >> \o Join(cmd[i]))
  /\ pc' = [pc EXCEPT ![i] = "r59"]
  /\ UNCHANGED << scan_thread, scan_process, stop_event, exc, h, cmd, it, line, proc,
                  res, said, stopped, failed >>
  /\ UNCHANGED << build, observed, leaked >>

\* lines 59-61: Popen spawns subprocess i, which will write n lines and ignores
\* SIGTERM or not; or Popen raises (the executable is missing)
Run59(i) ==
  /\ pc[i] = "r59"
  /\ \/ \E n \in 0..MaxLines, ign \in BOOLEAN :
          /\ proc' = [proc EXCEPT ![i] = [st |-> "run", n |-> n, w |-> 0, pipe |-> << >>,
                                           term |-> FALSE, ign |-> ign, err |-> 0]]
          /\ scan_process' = i
          /\ pc' = [pc EXCEPT ![i] = "r62"]
          /\ UNCHANGED << exc, failed >>
     \/ /\ exc' = [exc EXCEPT ![i] = "SpawnError"]
        /\ failed' = [failed EXCEPT ![i] = TRUE]
        /\ pc' = [pc EXCEPT ![i] = "r72"]
        /\ UNCHANGED << proc, scan_process >>
  /\ UNCHANGED << scan_thread, stop_event, h, cmd, it, line, log, res, said, stopped >>
  /\ UNCHANGED << build, observed, leaked >>

\* line 62, the loop's iterable: self.scan_process.stdout
Run62(i) ==
  /\ pc[i] = "r62"
  /\ IF scan_process = 0
     THEN /\ exc' = [exc EXCEPT ![i] = "AttributeError"]
          /\ pc' = [pc EXCEPT ![i] = "r72"]
          /\ UNCHANGED it
     ELSE /\ it' = [it EXCEPT ![i] = scan_process]
          /\ pc' = [pc EXCEPT ![i] = "next"]
          /\ UNCHANGED exc
  /\ UNCHANGED << scan_thread, scan_process, stop_event, h, cmd, line, proc, log, res,
                  said, stopped, failed >>
  /\ UNCHANGED << build, observed, leaked >>

\* a loop that takes the newest line of the pipe instead of the oldest
RunNextNewest(i) ==
  /\ pc[i] = "next"
  /\ IF proc[it[i]].pipe # << >>
     THEN /\ line' = [line EXCEPT ![i] = proc[it[i]].pipe[Len(proc[it[i]].pipe)]]
          /\ proc' = [proc EXCEPT ![it[i]].pipe = SubSeq(@, 1, Len(@) - 1)]
          /\ pc' = [pc EXCEPT ![i] = "r63"]
     ELSE /\ ~Running(it[i])
          /\ pc' = [pc EXCEPT ![i] = "r68"]
          /\ UNCHANGED << line, proc >>
  /\ UNCHANGED << scan_thread, scan_process, stop_event, exc, h, cmd, it, log, res,
                  said, stopped, failed >>
  /\ UNCHANGED << build, observed, leaked >>

\* line 62, the loop's next line: a line from the pipe, or the end of the
\* stream once the subprocess is gone and the pipe is empty; blocks otherwise
RunNext(i) ==
  /\ pc[i] = "next"
  /\ IF proc[it[i]].pipe # << >>
     THEN /\ line' = [line EXCEPT ![i] = Head(proc[it[i]].pipe)]
          /\ proc' = [proc EXCEPT ![it[i]].pipe = Tail(@)]
          /\ pc' = [pc EXCEPT ![i] = "r63"]
     ELSE /\ ~Running(it[i])
          /\ pc' = [pc EXCEPT ![i] = "r68"]
          /\ UNCHANGED << line, proc >>
  /\ UNCHANGED << scan_thread, scan_process, stop_event, exc, h, cmd, it, log, res,
                  said, stopped, failed >>
  /\ UNCHANGED << build, observed, leaked >>

\* line 62: reading the stream raises (an I/O or a decoding error)
RunReadFail(i) ==
  /\ pc[i] = "next"
  /\ exc' = [exc EXCEPT ![i] = "ReadError"]
  /\ failed' = [failed EXCEPT ![i] = TRUE]
  /\ pc' = [pc EXCEPT ![i] = "r72"]
  /\ UNCHANGED << scan_thread, scan_process, stop_event, h, cmd, it, line, proc, log,
                  res, said, stopped >>
  /\ UNCHANGED << build, observed, leaked >>

\* line 63: if self.stop_event.is_set(), on to line 64, else to line 67
Run63(i) ==
  /\ pc[i] = "r63"
  /\ pc' = [pc EXCEPT ![i] = IF stop_event THEN "t78" ELSE "r67"]
  /\ observed' = [observed EXCEPT ![i] = IF stop_event THEN @ \cup {"r63"} ELSE @]
  /\ UNCHANGED << scan_thread, scan_process, stop_event, exc, h, cmd, it, line, proc,
                  log, res, said, stopped, failed >>
  /\ UNCHANGED << build, leaked >>

\* a line 65 without the return of line 66: the loop goes on to line 67
Run65NoReturn(i) ==
  /\ pc[i] = "r65"
  /\ Emit(i, "stopped", << "Scan stopped by user." >>)
  /\ pc' = [pc EXCEPT ![i] = "r67"]
  /\ UNCHANGED << scan_thread, scan_process, stop_event, exc, h, cmd, it, line, proc,
                  res, said, stopped, failed >>
  /\ UNCHANGED << build, observed, leaked >>

\* line 65-66
Run65(i) ==
  /\ pc[i] = "r65"
  /\ Emit(i, "stopped", << "Scan stopped by user." >>)
  /\ pc' = [pc EXCEPT ![i] = "r90"]
  /\ UNCHANGED << scan_thread, scan_process, stop_event, exc, h, cmd, it, line, proc,
                  res, said, stopped, failed >>
  /\ UNCHANGED << build, observed, leaked >>

\* line 67
Run67(i) ==
  /\ pc[i] = "r67"
  /\ Emit(i, "out", Strip(line[i]))
  /\ line' = [line EXCEPT ![i] = << >>]
  /\ pc' = [pc EXCEPT ![i] = "next"]
  /\ UNCHANGED << scan_thread, scan_process, stop_event, exc, h, cmd, it, proc, res,
                  said, stopped, failed >>
  /\ UNCHANGED << build, observed, leaked >>

\* line 68, the receiver of wait(): self.scan_process
Run68(i) ==
  /\ pc[i] = "r68"
  /\ IF scan_process = 0
     THEN /\ exc' = [exc EXCEPT ![i] = "AttributeError"]
          /\ pc' = [pc EXCEPT ![i] = "r72"]
          /\ UNCHANGED h
     ELSE /\ h' = [h EXCEPT ![i] = scan_process]
          /\ pc' = [pc EXCEPT ![i] = "r68w"]
          /\ UNCHANGED exc
  /\ UNCHANGED << scan_thread, scan_process, stop_event, cmd, it, line, proc, log, res,
                  said, stopped, failed >>
  /\ UNCHANGED << build, observed, leaked >>

\* line 68: wait() returns once the subprocess is gone
Run68Wait(i) ==
  /\ pc[i] = "r68w"
  /\ ~Running(h[i])
  /\ h' = [h EXCEPT ![i] = 0]
  /\ pc' = [pc EXCEPT ![i] = "r69"]
  /\ UNCHANGED << scan_thread, scan_process, stop_event, exc, cmd, it, line, proc, log,
                  res, said, stopped, failed >>
  /\ UNCHANGED << build, observed, leaked >>

\* line 69
Run69(i) ==
  /\ pc[i] = "r69"
  /\ pc' = [pc EXCEPT ![i] = IF ~stop_event THEN "r70" ELSE "r90"]
  /\ observed' = [observed EXCEPT ![i] = IF stop_event THEN @ \cup {"r69"} ELSE @]
  /\ UNCHANGED << scan_thread, scan_process, stop_event, exc, h, cmd, it, line, proc,
                  log, res, said, stopped, failed >>
  /\ UNCHANGED << build, leaked >>

\* line 70
Run70(i) ==
  /\ pc[i] = "r70"
  /\ Emit(i, "completed", << "Scan completed successfully." >>)
  /\ pc' = [pc EXCEPT ![i] = "r90"]
  /\ UNCHANGED << scan_thread, scan_process, stop_event, exc, h, cmd, it, line, proc,
                  res, said, stopped, failed >>
  /\ UNCHANGED << build, observed, leaked >>

\* an except clause that swallows the exception without reporting it
Run72Silent(i) ==
  /\ pc[i] = "r72"
  /\ exc' = [exc EXCEPT ![i] = "none"]
  /\ pc' = [pc EXCEPT ![i] = "r90"]
  /\ UNCHANGED << scan_thread, scan_process, stop_event, h, cmd, it, line, proc, log,
                  res, said, stopped, failed >>
  /\ UNCHANGED << build, observed, leaked >>

\* lines 71-72: except Exception as e
Run72(i) ==
  /\ pc[i] = "r72"
  /\ Emit(i, "error", << "Error: " >> \o Message(exc[i]))
  /\ exc' = [exc EXCEPT ![i] = "none"]
  /\ pc' = [pc EXCEPT ![i] = "r90"]
  /\ UNCHANGED << scan_thread, scan_process, stop_event, h, cmd, it, line, proc, res,
                  said, stopped, failed >>
  /\ UNCHANGED << build, observed, leaked >>

\* lines 73-74 and 90: finally, cleanup_process clears the handle
Run90(i) ==
  /\ pc[i] = "r90"
  /\ scan_process' = 0
  /\ pc' = [pc EXCEPT ![i] = "r91"]
  /\ UNCHANGED << scan_thread, stop_event, exc, h, cmd, it, line, proc, log, res,
                  said, stopped, failed >>
  /\ UNCHANGED << build, observed, leaked >>

\* line 91: cleanup_process clears the event; run_scan returns, the thread ends
Run91(i) ==
  /\ pc[i] = "r91"
  /\ stop_event' = FALSE
  /\ pc' = [pc EXCEPT ![i] = "done"]
  /\ it' = [it EXCEPT ![i] = 0]
  /\ line' = [line EXCEPT ![i] = << >>]
  /\ UNCHANGED << scan_thread, scan_process, exc, h, cmd, proc, log, res, said,
                  stopped, failed >>
  /\ UNCHANGED << build, observed, leaked >>

run_scan(i) ==
  \/ Run58(i) \/ Run59(i) \/ Run62(i) \/ RunNext(i) \/ RunReadFail(i) \/ Run63(i)
  \/ Run65(i) \/ Run67(i) \/ Run68(i) \/ Run68Wait(i) \/ Run69(i) \/ Run70(i)
  \/ Run72(i) \/ Run90(i) \/ Run91(i)

\* ---------------------------------------------------- terminate_scan_process
\* where terminate_scan_process returns to: stop_scan ends (line 115), run_scan
\* goes on to line 65, or to its except clause when an exception propagates
TermReturn(c, e) ==
  IF c = 0
  THEN /\ pc' = [pc EXCEPT ![c] = "idle"]
       /\ res' = IF e = "none" THEN "ok" ELSE e
       /\ exc' = [exc EXCEPT ![c] = "none"]
  ELSE /\ pc' = [pc EXCEPT ![c] = IF e = "none" THEN "r65" ELSE "r72"]
       /\ exc' = [exc EXCEPT ![c] = e]
       /\ UNCHANGED res

\* line 78: if self.scan_process
Term78(c) ==
  /\ pc[c] = "t78"
  /\ IF scan_process = 0
     THEN TermReturn(c, "none")
     ELSE /\ pc' = [pc EXCEPT ![c] = "t80"]
          /\ UNCHANGED << exc, res >>
  /\ UNCHANGED << scan_thread, scan_process, stop_event, h, cmd, it, line, proc, log,
                  said, stopped, failed >>
  /\ UNCHANGED << build, observed, leaked >>

\* line 80: self.scan_process.terminate() sends SIGTERM to a running subprocess
Term80(c) ==
  /\ pc[c] = "t80"
  /\ IF scan_process = 0
     THEN /\ exc' = [exc EXCEPT ![c] = "AttributeError"]
          /\ pc' = [pc EXCEPT ![c] = "t85"]
          /\ UNCHANGED proc
     ELSE /\ proc' = [proc EXCEPT ![scan_process].term = @ \/ Running(scan_process)]
          /\ pc' = [pc EXCEPT ![c] = "t81"]
          /\ UNCHANGED exc
  /\ UNCHANGED << scan_thread, scan_process, stop_event, h, cmd, it, line, log, res,
                  said, stopped, failed >>
  /\ UNCHANGED << build, observed, leaked >>

\* line 81, the receiver of wait(timeout=2): self.scan_process
Term81(c) ==
  /\ pc[c] = "t81"
  /\ IF scan_process = 0
     THEN /\ exc' = [exc EXCEPT ![c] = "AttributeError"]
          /\ pc' = [pc EXCEPT ![c] = "t85"]
          /\ UNCHANGED h
     ELSE /\ h' = [h EXCEPT ![c] = scan_process]
          /\ pc' = [pc EXCEPT ![c] = "t81w"]
          /\ UNCHANGED exc
  /\ UNCHANGED << scan_thread, scan_process, stop_event, cmd, it, line, proc, log, res,
                  said, stopped, failed >>
  /\ UNCHANGED << build, observed, leaked >>

\* line 81-82: wait(timeout=2) returns when the subprocess is gone, and raises
\* TimeoutExpired when the grace period ends with the subprocess still running
Term81Wait(c) ==
  /\ pc[c] = "t81w"
  /\ pc' = [pc EXCEPT ![c] = IF Running(h[c]) THEN "t83" ELSE "t85"]
  /\ h' = [h EXCEPT ![c] = 0]
  /\ UNCHANGED << scan_thread, scan_process, stop_event, exc, cmd, it, line, proc, log,
                  res, said, stopped, failed >>
  /\ UNCHANGED << build, observed, leaked >>

\* line 83: self.scan_process.kill()
Term83(c) ==
  /\ pc[c] = "t83"
  /\ IF scan_process = 0
     THEN /\ exc' = [exc EXCEPT ![c] = "AttributeError"]
          /\ UNCHANGED proc
     ELSE /\ proc' = [proc EXCEPT ![scan_process].st =
                        IF Running(scan_process) THEN "killed" ELSE @]
          /\ UNCHANGED exc
  /\ pc' = [pc EXCEPT ![c] = "t85"]
  /\ UNCHANGED << scan_thread, scan_process, stop_event, h, cmd, it, line, log, res,
                  said, stopped, failed >>
  /\ UNCHANGED << build, observed, leaked >>

\* line 85: finally, self.scan_process = None
Term85(c) ==
  /\ pc[c] = "t85"
  /\ scan_process' = 0
  /\ pc' = [pc EXCEPT ![c] = "t86"]
  /\ UNCHANGED << scan_thread, stop_event, exc, h, cmd, it, line, proc, log, res,
                  said, stopped, failed >>
  /\ UNCHANGED << build, observed, leaked >>

\* line 86: self.stop_event.clear(); then the pending exception, if any, goes on
Term86(c) ==
  /\ pc[c] = "t86"
  /\ stop_event' = FALSE
  /\ TermReturn(c, exc[c])
  /\ UNCHANGED << scan_thread, scan_process, h, cmd, it, line, proc, log, said,
                  stopped, failed >>
  /\ UNCHANGED << build, observed, leaked >>

terminate_scan_process(c) ==
  \/ Term78(c) \/ Term80(c) \/ Term81(c) \/ Term81Wait(c) \/ Term83(c) \/ Term85(c)
  \/ Term86(c)

\* ----------------------------------------------------------------- stop_scan
\* the phase of the session of thread i when stop_scan is invoked
Phase(i) ==
  IF Running(i) THEN "running"
  ELSE IF pc[i] \in {"r58", "r59"} THEN "starting" ELSE "ending"

\* a stop_scan that sets the event before it looks for a subprocess
Stop113SetFirst ==
  /\ pc[0] = "idle"
  /\ stop_event' = TRUE
  /\ stopped' = IF scan_thread # 0 /\ is_alive(scan_thread)
                THEN [stopped EXCEPT ![scan_thread] = @ \cup {Phase(scan_thread)}]
                ELSE stopped
  /\ IF scan_process = 0
     THEN /\ said' = << << "No active scan to stop." >> >>
          /\ res' = "noactive"
          /\ UNCHANGED pc
     ELSE /\ said' = << >>
          /\ res' = "pending"
          /\ pc' = [pc EXCEPT ![0] = "s113"]
  /\ UNCHANGED << scan_thread, scan_process, exc, h, cmd, it, line, proc, log, failed >>
  /\ UNCHANGED << build, observed, leaked >>

\* stop_scan is invoked; line 113, the left operand: self.scan_process
Stop113 ==
  /\ pc[0] = "idle"
  /\ stopped' = IF scan_thread # 0 /\ is_alive(scan_thread)
                THEN [stopped EXCEPT ![scan_thread] = @ \cup {Phase(scan_thread)}]
                ELSE stopped
  /\ IF scan_process = 0
     THEN /\ said' = << << "No active scan to stop." >> >>
          /\ res' = "noactive"
          /\ UNCHANGED pc
     ELSE /\ said' = << >>
          /\ res' = "pending"
          /\ pc' = [pc EXCEPT ![0] = "s113"]
  /\ UNCHANGED << scan_thread, scan_process, stop_event, exc, h, cmd, it, line, proc,
                  log, failed >>
  /\ UNCHANGED << build, observed, leaked >>

\* line 113, the right operand: self.scan_process.poll() is None
Stop113Poll ==
  /\ pc[0] = "s113"
  /\ IF scan_process = 0
     THEN /\ res' = "AttributeError"
          /\ pc' = [pc EXCEPT ![0] = "idle"]
          /\ UNCHANGED << said, stopped >>
     ELSE IF Running(scan_process)
     THEN /\ pc' = [pc EXCEPT ![0] = "s114"]
          /\ stopped' = [stopped EXCEPT ![scan_process] = @ \cup {"accepted"}]
          /\ UNCHANGED << said, res >>
     ELSE /\ said' = Append(said, << "No active scan to stop." >>)
          /\ res' = "noactive"
          /\ pc' = [pc EXCEPT ![0] = "idle"]
          /\ UNCHANGED stopped
  /\ UNCHANGED << scan_thread, scan_process, stop_event, exc, h, cmd, it, line, proc,
                  log, failed >>
  /\ UNCHANGED << build, observed, leaked >>

\* line 114: self.stop_event.set(); line 115 enters terminate_scan_process
Stop114 ==
  /\ pc[0] = "s114"
  /\ stop_event' = TRUE
  /\ pc' = [pc EXCEPT ![0] = "t78"]
  /\ UNCHANGED << scan_thread, scan_process, exc, h, cmd, it, line, proc, log, res,
                  said, stopped, failed >>
  /\ UNCHANGED << build, observed, leaked >>

stop_scan == Stop113 \/ Stop113Poll \/ Stop114

\* ------------------------------------------------------------ specification
Foreground == StartScan \/ stop_scan \/ terminate_scan_process(0)

Background == \E i \in Threads : run_scan(i) \/ terminate_scan_process(i)

Next == Foreground \/ Background \/ Subprocess

Spec == Init /\ [][Next]_vars

\* the controller with subprocesses that also write to stderr
NextErr == Next \/ \E p \in Threads : ProcWriteErr(p)

SpecErr == Init /\ [][NextErr]_vars

\* ------------------------------------------- build_nmap_command on its own
BoolKeys == {"service_scan", "os_detection", "aggressive_scan", "verbose", "no_ping"}

\* scan_type values: empty, 'Label: flag', no separator, an empty flag, two
\* separators
ScanTypes ==
  { << >>,
    << "TCP SYN", ":", " ", "-sS" >>,
    << "TCP SYN" >>,
    << "UDP", ":", " " >>,
    << "A", ":", " ", "-sT", ":", " ", "-sU" >> }

\* option dicts: every key absent, False or True; scan_type absent or a str
BoolOptions == UNION {[D -> BOOLEAN] : D \in SUBSET BoolKeys}

Options ==
  BoolOptions \cup
  { [k \in DOMAIN o \cup {"scan_type"} |-> IF k = "scan_type" THEN t ELSE o[k]] :
      o \in BoolOptions, t \in ScanTypes }

Targets == {<< >>, << "10.0.0.5" >>}

PortRanges == {<< >>, << "20-80" >>}

\* the controller as after __init__, and one pending call of build_nmap_command
InitBuild ==
  /\ scan_thread = 0
  /\ scan_process = 0
  /\ stop_event = FALSE
  /\ pc = [c \in Contexts |-> IF c = 0 THEN "idle" ELSE "unborn"]
  /\ exc = [c \in Contexts |-> "none"]
  /\ h = [c \in Contexts |-> 0]
  /\ cmd = [i \in Threads |-> << >>]
  /\ it = [i \in Threads |-> 0]
  /\ line = [i \in Threads |-> << >>]
  /\ proc = [i \in Threads |-> NoProc]
  /\ log = << >>
  /\ res = "ok"
  /\ said = << >>
  /\ stopped = [i \in Threads |-> {}]
  /\ failed = [i \in Threads |-> FALSE]
  /\ observed = [i \in Threads |-> {}]
  /\ leaked = FALSE
  /\ \E t \in Targets, r \in PortRanges, o \in Options :
       build = [stage |-> "call", target |-> t, port_range |-> r, options |-> o]

\* lines 20-49: the call returns its list or raises
BuildCall ==
  /\ build.stage = "call"
  /\ LET e == BuildError(build.target, build.port_range, build.options) IN
     build' = [stage |-> "done", target |-> build.target,
               port_range |-> build.port_range, options |-> build.options,
               err |-> e,
               out |-> IF e = "none"
                       THEN build_nmap_command(build.target, build.port_range,
                                               build.options)
                       ELSE << >>]
  /\ UNCHANGED << scan_thread, scan_process, stop_event, pc, exc, h, cmd, it, line, proc,
                  log, res, said, stopped, failed, observed, leaked >>

NextBuild == BuildCall

SpecBuild == InitBuild /\ [][NextBuild]_vars

\* ================================================================== claims
\* the lines thread i handed to the callback, and their kinds
SessLog(i) == SelectSeq(log, LAMBDA e : e.s = i)

Kinds(i) == {SessLog(i)[k].kind : k \in 1..Len(SessLog(i))}

Count(i, kind) == Cardinality({k \in 1..Len(SessLog(i)) : SessLog(i)[k].kind = kind})

Done(i) == pc[i] = "done"

\* the session the log is about: the one the latest accepted start_scan began
Current(i) == i = scan_thread

IsPrefix(a, b) == Len(a) <= Len(b) /\ a = SubSeq(b, 1, Len(a))

\* C1: a session whose subprocess stop_scan found running (line 113 passed) and
\* sent SIGTERM, and that suffered no spawn or read failure, never emits "Scan completed
\* successfully." nor "Error: ...", and once over its lines are "Starting scan",
\* output lines, and exactly one "Scan stopped by user." as the last line.
C1_StoppedSessionLines ==
  \A i \in Threads :
    (Current(i) /\ "accepted" \in stopped[i] /\ proc[i].term /\ ~failed[i]) =>
      /\ "completed" \notin Kinds(i)
      /\ "error" \notin Kinds(i)
      /\ Done(i) =>
           /\ Len(SessLog(i)) >= 2
           /\ SessLog(i)[1].kind = "starting"
           /\ SessLog(i)[Len(SessLog(i))].kind = "stopped"
           /\ \A k \in 2..(Len(SessLog(i)) - 1) : SessLog(i)[k].kind = "out"

\* C2: in every reachable state at most one background thread is alive and at
\* most one subprocess is running.
C2_OneSessionAlive ==
  /\ Cardinality({i \in Threads : is_alive(i)}) <= 1
  /\ Cardinality({p \in Threads : Running(p)}) <= 1

\* the parts of C2 that hold: never two live background threads, and a
\* start_scan made while the thread is alive hands exactly the rejection line
\* to the callback and starts neither thread nor subprocess.
C2_OneThreadAlive == Cardinality({i \in Threads : is_alive(i)}) <= 1

C2_RejectedStartOnlyReports ==
  [][\A args \in StartArgs :
       (start_scan(args) /\ AlreadyRunning) =>
         /\ said' = << << "A scan is already in progress. Please wait." >> >>
         /\ UNCHANGED << scan_thread, scan_process, stop_event, pc, cmd, proc, log >>]_vars

\* what a session that runs to completion hands to the callback: the
\* "Starting scan" line with the joined command, the visible text of each line
\* of the script in order, and "Scan completed successfully."
CompleteLog(i) ==
  << Entry(i, "starting", << "Starting scan: " >> \o Join(cmd[i])) >>
  \o [k \in 1..proc[i].n |-> Entry(i, "out", LineText(k))]
  \o << Entry(i, "completed", << "Scan completed successfully." >>) >>

\* C3: while stop_scan was never invoked on a session and nothing failed in it,
\* the lines it has delivered are the first lines of CompleteLog, and all of
\* CompleteLog and nothing more once its thread is over.
C3_CompleteSessionLines ==
  \A i \in Threads :
    (Current(i) /\ stopped[i] = {} /\ ~failed[i]) =>
      /\ IsPrefix(SessLog(i), CompleteLog(i))
      /\ Done(i) => SessLog(i) = CompleteLog(i)

C3_Witness ==
  \E i \in Threads :
    /\ Current(i) /\ Done(i) /\ stopped[i] = {} /\ ~failed[i]
    /\ proc[i].n >= 2
    /\ SessLog(i) = CompleteLog(i)

\* a scan_type that is absent, empty or holds the ": " separator
WellFormed(options) ==
  \/ "scan_type" \notin DOMAIN options
  \/ options["scan_type"] = << >>
  \/ \E k \in 1..(Len(options["scan_type"]) - 1) :
       options["scan_type"][k] = ":" /\ options["scan_type"][k + 1] = " "

\* the start_scan call with these arguments begins a new session
Accepted(args) ==
  /\ res' = "ok"
  /\ said' = << >>
  /\ scan_thread' = scan_thread + 1
  /\ pc'[scan_thread'] = "r58"

\* C4 as stated: once the thread of a session is over, a start_scan with a
\* non-empty target begins a new session and emits no rejection.
C4_RestartAccepted ==
  [][\A args \in StartArgs :
       (start_scan(args) /\ scan_thread # 0 /\ Done(scan_thread)
          /\ args.target # << >>) => Accepted(args)]_vars

\* C4 amended: once the thread of a session is over, a start_scan with a
\* non-empty target and a well-formed scan_type begins a new session and emits
\* no rejection.
C4_RestartAcceptedWellFormed ==
  [][\A args \in StartArgs :
       (start_scan(args) /\ scan_thread # 0 /\ Done(scan_thread)
          /\ args.target # << >> /\ WellFormed(args.options)) => Accepted(args)]_vars

C4_Witness == scan_thread >= 2 /\ pc[scan_thread] = "r58" /\ res = "ok"

\* C5: a start_scan with an empty target on an idle controller raises nothing:
\* it hands "Error: Target cannot be empty." to the callback, starts no thread
\* and leaves the controller as it was.
C5_EmptyTargetReported ==
  [][\A args \in StartArgs :
       (start_scan(args) /\ ~AlreadyRunning /\ args.target = << >>) =>
         /\ res' \notin {"ValueError", "IndexError"}
         /\ said' = << << "Error: " >> \o Message("ValueError") >>
         /\ UNCHANGED << scan_thread, scan_process, pc >>]_vars

\* C6: a stop_scan invoked while no thread is alive and the handle is None
\* hands exactly "No active scan to stop." to the callback and changes nothing
\* else: handle, thread, event and every context stay as they were.
C6_IdleStopOnlyReports ==
  [][(Stop113 /\ ~AlreadyRunning /\ scan_process = 0) =>
       /\ said' = << << "No active scan to stop." >> >>
       /\ res' = "noactive"
       /\ UNCHANGED << scan_thread, scan_process, stop_event, pc, exc, h, cmd, it, line,
                       proc, log >>]_vars

C6_Witness ==
  /\ res = "noactive" /\ said = << << "No active scan to stop." >> >>
  /\ scan_thread # 0 /\ ~AlreadyRunning /\ scan_process = 0 /\ pc[0] = "idle"

\* C7: a session on which stop_scan was invoked in its Starting phase (thread
\* started, subprocess not yet spawned) never emits "Scan completed
\* successfully.".
C7_StopWhileStartingCancels ==
  \A i \in Threads :
    (Current(i) /\ "starting" \in stopped[i] /\ ~failed[i]) => "completed" \notin Kinds(i)

\* C8: no line is handed to the callback by the foreground, the caller of
\* start_scan and stop_scan.
C8_CallbackOnlyInBackground == said = << >>

\* C9: once a session on whose running subprocess stop_scan acted (line 113
\* passed) is over and stop_scan has returned, that subprocess runs no more.
C9_StoppedSubprocessGone ==
  \A i \in Threads :
    (Current(i) /\ "accepted" \in stopped[i] /\ Done(i) /\ pc[0] = "idle") => ~Running(i)

\* C10: a session in which spawning or reading failed is in its except clause
\* or past it and has emitted no "Scan completed successfully."; when its thread
\* ends it has emitted one "Error: <message>" line, as its last line, and the
\* handle is None and the event clear.
C10_FailureReportedAndCleaned ==
  [][\A i \in Threads :
       (Current(i)' /\ failed'[i]) =>
         /\ pc'[i] \in {"r72", "r90", "r91", "done"}
         /\ "completed" \notin Kinds(i)'
         /\ (pc[i] # "done" /\ pc'[i] = "done") =>
              /\ Count(i, "error")' = 1
              /\ SessLog(i)'[Len(SessLog(i)')].kind = "error"
              /\ SessLog(i)'[Len(SessLog(i)')].text[1] = "Error: "
              /\ scan_process' = 0
              /\ ~stop_event']_vars

C10_Witness ==
  \E i \in Threads :
    /\ Current(i) /\ Done(i) /\ failed[i]
    /\ Count(i, "error") = 1
    /\ scan_process = 0 /\ ~stop_event

\* the positions of the ": " separator in a scan_type
Separators(st) == {k \in 1..(Len(st) - 1) : st[k] = ":" /\ st[k + 1] = " "}

HasScanType(options) == "scan_type" \in DOMAIN options /\ options["scan_type"] # << >>

\* arguments C11 is about: a non-empty target and a scan_type that is absent,
\* empty or 'Label: flag' with one separator
ValidBuild ==
  /\ build.target # << >>
  /\ HasScanType(build.options) => Cardinality(Separators(build.options["scan_type"])) = 1

On(options, key) == key \in DOMAIN options /\ options[key] = TRUE

\* the flags in their fixed order, each with the condition under which it appears
FlagTable(target, port_range, options) ==
  << [on |-> HasScanType(options),
      arg |-> IF HasScanType(options) /\ Separators(options["scan_type"]) # {}
              THEN LET k == CHOOSE k \in Separators(options["scan_type"]) : TRUE
                   IN SubSeq(options["scan_type"], k + 2, Len(options["scan_type"]))
              ELSE << >>],
     [on |-> port_range # << >>, arg |-> << "-p" >> \o port_range],
     [on |-> On(options, "service_scan"), arg |-> << "-sV" >>],
     [on |-> On(options, "os_detection"), arg |-> << "-O" >>],
     [on |-> On(options, "aggressive_scan"), arg |-> << "-A" >>],
     [on |-> On(options, "verbose"), arg |-> << "-v" >>],
     [on |-> On(options, "no_ping"), arg |-> << "-Pn" >>] >>

Args(table) ==
  LET kept == SelectSeq(table, LAMBDA f : f.on) IN [k \in 1..Len(kept) |-> kept[k].arg]

ExampleBuild ==
  /\ build.target = << "10.0.0.5" >>
  /\ build.port_range = << "20-80" >>
  /\ build.options = [scan_type |-> << "TCP SYN", ":", " ", "-sS" >>, service_scan |-> TRUE]

ExampleCommand ==
  << << "nmap" >>, << "-sS" >>, << "-p", "20-80" >>, << "-sV" >>, << "10.0.0.5" >> >>

\* C11: for valid arguments build_nmap_command raises nothing and returns
\* 'nmap', then the flags of the table whose option is set, in the table's
\* order, then the target; the example of the spec gives
\* ['nmap','-sS','-p20-80','-sV','10.0.0.5'].
C11_FixedFlagOrder ==
  (build.stage = "done" /\ ValidBuild) =>
    /\ build.err = "none"
    /\ build.out = << << "nmap" >> >>
                   \o Args(FlagTable(build.target, build.port_range, build.options))
                   \o << build.target >>
    /\ ExampleBuild => build.out = ExampleCommand

C11_Witness == build.stage = "done" /\ ExampleBuild /\ build.out = ExampleCommand

\* C12: build_nmap_command with an empty target raises ValueError('Target
\* cannot be empty.') whatever the port range and the options are.
C12_EmptyTargetValueError ==
  (build.stage = "done" /\ build.target = << >>) => build.err = "ValueError"

\* the thread of session i waits for its subprocess: for a line, or for its exit
Waiting(i) == pc[i] \in {"next", "r68w"}

\* C16: stderr never blocks a session: in a session with no stop_scan and no
\* failure whose thread waits for the subprocess, the wait can return or the
\* subprocess can go on writing its output or exit, so the session can still
\* reach 'Scan completed successfully.'.
C16_StderrNeverBlocks ==
  \A i \in Threads :
    (Current(i) /\ stopped[i] = {} /\ ~failed[i] /\ Waiting(i)) =>
      ENABLED (RunNext(i) \/ Run68Wait(i) \/ ProcWrite(i) \/ ProcExit(i))

\* C13: stop_scan never fails because the loop thread cleared the handle
\* between stop_scan's check of it and its use: no call of the foreground ends
\* with the AttributeError of a call on None, in particular when no spawn and
\* no read of a session fails.
C13_StopNeverFailsOnClearedHandle ==
  (\A i \in Threads : ~failed[i]) => res # "AttributeError"

\* the controller is idle after a session: a thread was created, it is over,
\* and no call of the foreground is in progress
IdleAfterSession == scan_thread # 0 /\ ~is_alive(scan_thread) /\ pc[0] = "idle"

\* C14: whenever the controller is idle after a session has ended, the handle
\* is cleared and the stop event is clear.
C14_IdleIsClean == IdleAfterSession => (scan_process = 0 /\ ~stop_event)

\* C15: once the loop's check at line 63 has found the stop event set, the
\* session emits 'Scan stopped by user.': a session whose check found the event
\* set and whose thread is over has that line in its log.
C15_ObservedStopIsReported ==
  \A i \in Threads :
    (Current(i) /\ "r63" \in observed[i] /\ Done(i)) => "stopped" \in Kinds(i)

\* C17: a session during which stop_scan is never invoked never finds the stop
\* event set (at line 63 or at line 69) and never emits 'Scan stopped by
\* user.', whatever the earlier session left behind.
C17_NoCancellationLeak ==
  \A i \in Threads :
    (Current(i) /\ stopped[i] = {}) => (observed[i] = {} /\ "stopped" \notin Kinds(i))

\* a session that began with the stop event still set by the earlier session's
\* stop_scan, delivered output and completed without any stop_scan
C17_Witness ==
  /\ leaked
  /\ scan_thread # 0
  /\ Done(scan_thread)
  /\ stopped[scan_thread] = {}
  /\ Count(scan_thread, "out") >= 1
  /\ "completed" \in Kinds(scan_thread)

\* the status lines that end a session
Terminal == {"completed", "stopped", "error"}

Terminals(i) == Cardinality({k \in 1..Len(SessLog(i)) : SessLog(i)[k].kind \in Terminal})

\* C18: an accepted session emits the 'Starting scan' line once, as its first
\* line (it is there as soon as line 58 is passed), and at most one of the
\* lines 'Scan completed successfully.', 'Scan stopped by user.', 'Error: ...'.
C18_OneStartOneEnd ==
  \A i \in Threads :
    Current(i) =>
      /\ pc[i] # "r58" => (SessLog(i) # << >> /\ SessLog(i)[1].kind = "starting")
      /\ pc[i] = "r58" => SessLog(i) = << >>
      /\ Count(i, "starting") <= 1
      /\ Terminals(i) <= 1

\* a finished session with the Starting line, an output line and one final line
C18_Witness ==
  /\ scan_thread # 0
  /\ Done(scan_thread)
  /\ Count(scan_thread, "starting") = 1
  /\ Count(scan_thread, "out") >= 1
  /\ Terminals(scan_thread) = 1

\* C19: a start_scan made while the session's thread is alive is rejected
\* whatever its arguments are, valid or not: it builds no command (the call
\* ends with the rejection, not with an error of build_nmap_command) and
\* leaves the stop event, the thread, the handle, the subprocesses and every
\* thread's position and command as they were.
C19_RejectedStartLeavesSession ==
  [][\A args \in StartArgs :
       (start_scan(args) /\ scan_thread # 0 /\ is_alive(scan_thread)) =>
         /\ res' = "busy"
         /\ stop_event' = stop_event
         /\ scan_thread' = scan_thread
         /\ scan_process' = scan_process
         /\ cmd' = cmd
         /\ proc' = proc
         /\ pc' = pc
         /\ h' = h /\ it' = it /\ exc' = exc
         /\ log' = log]_vars

\* a start_scan was rejected while the stop event was set, and the event is
\* still set and the thread still alive
C19_Witness ==
  /\ res = "busy"
  /\ pc[0] = "idle"
  /\ scan_thread # 0
  /\ is_alive(scan_thread)
  /\ stop_event

====
